---- MODULE Spec2Model ----
(***************************************************************************)
(* Model of eu4_multiplier.py (modifier table builder, tree transformer,   *)
(* target walker), paradox_parser.py (AST, serializer, grammar) and        *)
(* eu4_ideas_multiplier.py (line-oriented processor).                      *)
(***************************************************************************)
EXTENDS Integers, Sequences, FiniteSets, TLC

VARIABLES
    pc,             \* position of the modelled run
    parent_name,    \* path.parent.name of the file handed to process_file
    src_tree,       \* the forest as parse_file returned it (history)
    tree,           \* the forest in memory, mutated in place
    changed,        \* the dirty flag of process_file / process_static_file
    out,            \* the diagnostics printed by process_expression
    result,         \* what process_file returned (tree or [])
    fs,             \* the source directory tree handed to process_target
    stack,          \* the explicit stack of process_target
    parsed,         \* the files handed to process_file, in order (history)
    after,          \* per parsed file, its forest after the transform
    dest_files,     \* the destination files written, by destination path
    dest_dirs,      \* the destination directories created
    lines,          \* the lines of the modifiers file read by load_modifiers
    estates,        \* the estate names discovered by load_estates
    alternatives,   \* toml['gen_modifiers']['alternatives']
    idx,            \* the next line load_modifiers reads
    res,            \* the table load_modifiers builds
    emitted,        \* per line read, the keys it stored (history)
    text,           \* the characters of a script file
    ptree,          \* the forest parse_file returned, or that is printed
    reparsed,       \* the outcome of parse_file on the printed text
    source_type,    \* the source_type argument of eu4_ideas_multiplier.py
    in_file,        \* the lines of its input file
    lineno,         \* the next line its process_file reads
    blocks,         \* the block stack of its process_file
    out_file        \* the lines written to its output file

transform_vars == <<pc, parent_name, src_tree, tree, changed, out, result>>

walk_vars == <<fs, stack, parsed, after, dest_files, dest_dirs>>

load_vars == <<lines, estates, alternatives, idx, res, emitted>>

parse_vars == <<text, ptree, reparsed>>

legacy_vars == <<source_type, in_file, lineno, blocks, out_file>>

vars == <<transform_vars, walk_vars, load_vars, parse_vars, legacy_vars>>

----------------------------------------------------------------------------
(* Bounds of the model *)

\* number of Expression nodes in a modelled file
MaxNodes == 3

\* number of files and directories below the source directory of a walk
MaxFsNodes == 3

\* number of lines of the modifiers file
MaxLines == 2

\* number of tokens of a modifier identifier
MaxIdentLen == 2

\* number of Expression nodes in a tree that is printed
MaxParseNodes == 2

\* number of elements of a Listing that is printed
MaxListLen == 3

\* number of characters of a generated rhs text
MaxRhsLen == 3

\* number of lines of an input file of the line-oriented processor
MaxLegacyLines == 3

----------------------------------------------------------------------------
(* paradox_parser.py: the node kinds *)

Range(s) == {s[i] : i \in 1..Len(s)}

Identifier(v) == [kind |-> "Identifier", value |-> v]

String(v) == [kind |-> "String", value |-> v]

Number(v) == [kind |-> "Number", value |-> v]

Color(r, g, b) == [kind |-> "Color", red |-> r, green |-> g, blue |-> b]

Listing(els) == [kind |-> "Listing", elements |-> els]

Block(es) == [kind |-> "Block", entries |-> es]

Expression(l, r) == [lhs |-> l, rhs |-> r]

----------------------------------------------------------------------------
(* eu4_multiplier.py: configuration *)

IGNORE_BLOCKS ==
    {"ai_will_do", "ai", "allow", "can_end", "can_select", "can_start",
     "can_stop", "chance", "on_monthly", "potential", "progress",
     "target_province_weights", "trigger"}

\* the table read from modifiers.json by multiply()
modifiers == ("base_tax" :> 10) @@ ("trigger" :> 3)

\* toml['multiply']['ignore_static']
ignore_static == {"k"}

\* keys occurring in the modelled files
Keys == {"trigger", "base_tax", "k"}

\* the childless Expressions occurring in the modelled files: every key
\* with a Number, an Identifier and an empty Block, and the other kinds
\* under a table key and under a key outside the table
Leaves ==
    {Expression(Identifier(k), v) :
        k \in Keys, v \in {Number(5), Identifier("yes"), Block(<<>>)}}
    \cup {Expression(Identifier("base_tax"), v) :
        v \in {String("s"), Color(1, 2, 3), Listing(<<Identifier("a")>>)}}
    \cup {Expression(Identifier("k"), Listing(<<Identifier("a")>>))}

RECURSIVE ExprsOf(_, _, _), ForestsOf(_, _, _)
\* the Expressions made of exactly n Expression nodes, with Block keys
\* from K and childless Expressions from L
ExprsOf(n, K, L) ==
    IF n = 1
    THEN L
    ELSE {Expression(Identifier(k), Block(f)) :
            k \in K, f \in ForestsOf(n - 1, K, L)}

\* the sequences of Expressions made of exactly n Expression nodes
ForestsOf(n, K, L) ==
    IF n = 0
    THEN {<<>>}
    ELSE UNION {{<<e>> \o f :
                   e \in ExprsOf(m, K, L), f \in ForestsOf(n - m, K, L)} :
                  m \in 1..n}

\* what parse_file can hand to the transformer
Files == UNION {ForestsOf(n, Keys, Leaves) : n \in 0..MaxNodes}

----------------------------------------------------------------------------
(* eu4_multiplier.py: the tree transformer *)

RECURSIVE process_expression(_, _), process_entries(_, _)

\* process_expression without the IGNORE_BLOCKS test of its first line
process_expression_no_ignore(expression, mods) ==
    IF expression.rhs.kind = "Block"
    THEN LET r == process_entries(expression.rhs.entries, mods)
         IN  [exp |-> Expression(expression.lhs, Block(r.entries)),
              res |-> r.res, out |-> r.out]
    ELSE IF expression.lhs.value \in DOMAIN mods
    THEN IF expression.rhs.kind # "Number"
         THEN [exp |-> expression, res |-> FALSE, out |-> <<expression>>]
         ELSE [exp |-> Expression(expression.lhs,
                          Number(expression.rhs.value
                                 * mods[expression.lhs.value])),
               res |-> TRUE, out |-> <<>>]
    ELSE [exp |-> expression, res |-> FALSE, out |-> <<>>]

\* process_expression that stays silent on a non-Number under a table key
process_expression_silent(expression, mods) ==
    IF expression.lhs.value \in IGNORE_BLOCKS
    THEN [exp |-> expression, res |-> FALSE, out |-> <<>>]
    ELSE IF expression.rhs.kind = "Block"
    THEN LET r == process_entries(expression.rhs.entries, mods)
         IN  [exp |-> Expression(expression.lhs, Block(r.entries)),
              res |-> r.res, out |-> r.out]
    ELSE IF expression.lhs.value \in DOMAIN mods
    THEN IF expression.rhs.kind # "Number"
         THEN [exp |-> expression, res |-> FALSE, out |-> <<>>]
         ELSE [exp |-> Expression(expression.lhs,
                          Number(expression.rhs.value
                                 * mods[expression.lhs.value])),
               res |-> TRUE, out |-> <<>>]
    ELSE [exp |-> expression, res |-> FALSE, out |-> <<>>]

\* process_expression that tests the kind of rhs before the table lookup
\* and multiplies every Number by the global multiplier
process_expression_any_number(expression, mods) ==
    IF expression.lhs.value \in IGNORE_BLOCKS
    THEN [exp |-> expression, res |-> FALSE, out |-> <<>>]
    ELSE IF expression.rhs.kind = "Block"
    THEN LET r == process_entries(expression.rhs.entries, mods)
         IN  [exp |-> Expression(expression.lhs, Block(r.entries)),
              res |-> r.res, out |-> r.out]
    ELSE IF expression.rhs.kind = "Number"
    THEN [exp |-> Expression(expression.lhs,
                             Number(expression.rhs.value * 10)),
          res |-> TRUE, out |-> <<>>]
    ELSE IF expression.lhs.value \in DOMAIN mods
    THEN [exp |-> expression, res |-> FALSE, out |-> <<expression>>]
    ELSE [exp |-> expression, res |-> FALSE, out |-> <<>>]

RECURSIVE process_entries_short_circuit(_, _, _)
\* the loop written "res = res or process_expression(child, modifiers)"
process_entries_short_circuit(entries, mods, dirty) ==
    IF entries = <<>>
    THEN [entries |-> <<>>, res |-> dirty, out |-> <<>>]
    ELSE LET h == IF dirty
                  THEN [exp |-> Head(entries), res |-> TRUE, out |-> <<>>]
                  ELSE process_expression(Head(entries), mods)
             t == process_entries_short_circuit(Tail(entries), mods, h.res)
         IN  [entries |-> <<h.exp>> \o t.entries,
              res |-> t.res,
              out |-> h.out \o t.out]

process_entries_res_or(entries, mods) ==
    process_entries_short_circuit(entries, mods, FALSE)

\* returns the Expression after the call, the returned flag and the prints
process_expression(expression, mods) ==
    IF expression.lhs.value \in IGNORE_BLOCKS
    THEN [exp |-> expression, res |-> FALSE, out |-> <<>>]
    ELSE IF expression.rhs.kind = "Block"
    THEN LET r == process_entries(expression.rhs.entries, mods)
         IN  [exp |-> Expression(expression.lhs, Block(r.entries)),
              res |-> r.res, out |-> r.out]
    ELSE IF expression.lhs.value \in DOMAIN mods
    THEN IF expression.rhs.kind # "Number"
         THEN [exp |-> expression, res |-> FALSE, out |-> <<expression>>]
         ELSE [exp |-> Expression(expression.lhs,
                          Number(expression.rhs.value
                                 * mods[expression.lhs.value])),
               res |-> TRUE, out |-> <<>>]
    ELSE [exp |-> expression, res |-> FALSE, out |-> <<>>]

\* the loop "res = process_expression(child, modifiers) or res"
process_entries(entries, mods) ==
    IF entries = <<>>
    THEN [entries |-> <<>>, res |-> FALSE, out |-> <<>>]
    ELSE LET h == process_expression(Head(entries), mods)
             t == process_entries(Tail(entries), mods)
         IN  [entries |-> <<h.exp>> \o t.entries,
              res |-> (h.res \/ t.res),
              out |-> h.out \o t.out]

RECURSIVE process_static_file(_, _, _)

\* process_static_file without the "in ignore" test
process_static_file_no_ignore(t, mods, ignore) ==
    IF t = <<>>
    THEN [tree |-> <<>>, changed |-> FALSE, out |-> <<>>, failed |-> FALSE]
    ELSE LET expression == Head(t)
         IN  IF expression.rhs.kind # "Block"
             THEN [tree |-> t, changed |-> FALSE, out |-> <<>>,
                   failed |-> TRUE]
             ELSE LET r == process_entries(expression.rhs.entries, mods)
                      rest == process_static_file(Tail(t), mods, ignore)
                  IN  [tree |-> <<Expression(expression.lhs,
                                             Block(r.entries))>>
                                \o rest.tree,
                       changed |-> (r.res \/ rest.changed),
                       out |-> r.out \o rest.out,
                       failed |-> rest.failed]

\* the loop of process_static_file over the top-level Expressions; failed
\* is the AssertionError of "assert isinstance(expression.rhs, pdx.Block)",
\* which leaves the Expressions after it untouched
process_static_file(t, mods, ignore) ==
    IF t = <<>>
    THEN [tree |-> <<>>, changed |-> FALSE, out |-> <<>>, failed |-> FALSE]
    ELSE LET expression == Head(t)
         IN  IF expression.rhs.kind # "Block"
             THEN [tree |-> t, changed |-> FALSE, out |-> <<>>,
                   failed |-> TRUE]
             ELSE LET r == IF expression.lhs.value \in ignore
                           THEN [entries |-> expression.rhs.entries,
                                 res |-> FALSE, out |-> <<>>]
                           ELSE process_entries(expression.rhs.entries, mods)
                      rest == process_static_file(Tail(t), mods, ignore)
                  IN  [tree |-> <<Expression(expression.lhs,
                                             Block(r.entries))>>
                                \o rest.tree,
                       changed |-> (r.res \/ rest.changed),
                       out |-> r.out \o rest.out,
                       failed |-> rest.failed]

\* process_file that returns the tree whether or not it changed
process_file_always_tree(parent, t, mods, ignore) ==
    LET r == IF parent = "static_modifiers"
             THEN process_static_file(t, mods, ignore)
             ELSE LET g == process_entries(t, mods)
                  IN  [tree |-> g.entries, changed |-> g.res, out |-> g.out,
                       failed |-> FALSE]
    IN  [tree |-> r.tree, changed |-> r.changed, out |-> r.out,
         failed |-> r.failed,
         ret |-> IF ~r.failed THEN r.tree ELSE <<>>]

\* process_file: the static branch for files of a static_modifiers
\* directory, the generic loop otherwise; ret is "tree if changed else []"
process_file(parent, t, mods, ignore) ==
    LET r == IF parent = "static_modifiers"
             THEN process_static_file(t, mods, ignore)
             ELSE LET g == process_entries(t, mods)
                  IN  [tree |-> g.entries, changed |-> g.res, out |-> g.out,
                       failed |-> FALSE]
    IN  [tree |-> r.tree, changed |-> r.changed, out |-> r.out,
         failed |-> r.failed,
         ret |-> IF r.changed /\ ~r.failed THEN r.tree ELSE <<>>]

----------------------------------------------------------------------------
(* One file through process_file *)

ParentNames == {"static_modifiers", "ideas"}

InitTransform ==
    /\ pc = "parsed"
    /\ parent_name \in ParentNames
    /\ src_tree \in Files
    /\ tree = src_tree
    /\ changed = FALSE
    /\ out = <<>>
    /\ result = <<>>
    /\ fs = <<>>
    /\ stack = <<>>
    /\ parsed = <<>>
    /\ after = <<>>
    /\ dest_files = <<>>
    /\ dest_dirs = {}
    /\ lines = <<>>
    /\ estates = {}
    /\ alternatives = <<>>
    /\ idx = 1
    /\ res = <<>>
    /\ emitted = <<>>
    /\ text = <<>>
    /\ ptree = <<>>
    /\ reparsed = <<>>
    /\ source_type = ""
    /\ in_file = <<>>
    /\ lineno = 1
    /\ blocks = <<>>
    /\ out_file = <<>>

\* process_file on a file outside static_modifiers
ProcessGeneric ==
    /\ pc = "parsed"
    /\ parent_name # "static_modifiers"
    /\ LET r == process_file(parent_name, tree, modifiers, ignore_static)
       IN  /\ tree' = r.tree
           /\ changed' = r.changed
           /\ out' = r.out
           /\ result' = r.ret
           /\ pc' = "done"
    /\ UNCHANGED legacy_vars
    /\ UNCHANGED <<parent_name, src_tree, walk_vars, load_vars, parse_vars>>

\* process_file on a file of a static_modifiers directory
ProcessStatic ==
    /\ pc = "parsed"
    /\ parent_name = "static_modifiers"
    /\ LET r == process_file(parent_name, tree, modifiers, ignore_static)
       IN  /\ tree' = r.tree
           /\ changed' = r.changed
           /\ out' = r.out
           /\ result' = r.ret
           /\ pc' = IF r.failed THEN "failed" ELSE "done"
    /\ UNCHANGED legacy_vars
    /\ UNCHANGED <<parent_name, src_tree, walk_vars, load_vars, parse_vars>>

NextTransform == ProcessGeneric \/ ProcessStatic

SpecTransform == InitTransform /\ [][NextTransform]_vars

----------------------------------------------------------------------------
(* eu4_multiplier.py: the target walker *)

IGNORE_DIRS ==
    {"ai_army", "ai_attitudes", "ai_personalities", "bookmarks", "cb_types",
     "client_states", "colonial_regions", "countries", "country_colors",
     "country_tags", "cultures", "custom_country_colors", "defines",
     "diplomatic_actions", "dynasty_colors", "estate_agendas",
     "estates_preload", "government_names", "governments",
     "imperial_incidents", "incidents", "insults", "natives",
     "new_diplomatic_actions", "on_actions", "opinion_modifiers",
     "parliament_bribes", "peace_treaties", "powerprojection", "prices",
     "province_names", "rebel_types", "region_colors",
     "religious_conversions", "revolt_triggers", "scripted_effects",
     "scripted_functions", "scripted_triggers", "subject_types",
     "timed_modifiers", "trade_companies", "tradenodes", "units_display",
     "units", "wargoal_types"}

\* a directory entry: a file with its parsed content, or a directory with
\* its entries in iterdir order
File(n, c) == [name |-> n, is_dir |-> FALSE, content |-> c]

Dir(n, es) == [name |-> n, is_dir |-> TRUE, entries |-> es]

\* names of the source directories handed to process_target
RootNames == {"common", "mod", "units"}

DirNames == {"common", "units", "static_modifiers"}

FileNames == {"a.txt", "units"}

\* the parsed contents of the files of a walk
FileTrees ==
    {<<Expression(Identifier("k"),
                  Block(<<Expression(Identifier("k"), Number(5))>>))>>,
     <<Expression(Identifier("k"),
                  Block(<<Expression(Identifier("base_tax"), Number(5))>>))>>,
     <<Expression(Identifier("base_tax"),
                  Block(<<Expression(Identifier("base_tax"), Number(5))>>))>>,
     <<Expression(Identifier("base_tax"),
                  Block(<<Expression(Identifier("base_tax"), Number(5))>>)),
       Expression(Identifier("base_tax"), Number(5))>>}

FsLeaves ==
    {File(n, c) : n \in FileNames, c \in FileTrees}
    \cup {Dir(n, <<>>) : n \in DirNames}

RECURSIVE FsNodesOf(_), FsForestsOf(_)
\* the entries made of exactly n files and directories
FsNodesOf(n) ==
    IF n = 1
    THEN FsLeaves
    ELSE {Dir(d, es) : d \in DirNames, es \in FsForestsOf(n - 1)}

\* the entry lists of a directory, n files and directories in all, with
\* no name twice in one directory
FsForestsOf(n) ==
    IF n = 0
    THEN {<<>>}
    ELSE UNION {UNION {{<<e>> \o f :
                          f \in {g \in FsForestsOf(n - m) :
                                   \A i \in 1..Len(g) : g[i].name # e.name}} :
                         e \in FsNodesOf(m)} :
                  m \in 1..n}

Sources ==
    {Dir(r, es) : r \in RootNames,
                  es \in UNION {FsForestsOf(n) : n \in 0..MaxFsNodes}}

RECURSIVE EntryAt(_, _)
\* the entry of directory d at the path of names p below it
EntryAt(d, p) ==
    IF p = <<>>
    THEN d
    ELSE LET i == CHOOSE j \in 1..Len(d.entries) : d.entries[j].name = p[1]
         IN  EntryAt(d.entries[i], Tail(p))

\* the name of the path p below the source directory
NameOf(p) == IF p = <<>> THEN fs.name ELSE p[Len(p)]

ParentOf(p) == SubSeq(p, 1, Len(p) - 1)

RECURSIVE Pushed(_, _, _)

\* the for loop over src.iterdir(): the pairs appended to the stack
Pushed(src, dst, entries) ==
    IF entries = <<>>
    THEN <<>>
    ELSE LET nxt == Head(entries)
             rest == Pushed(src, dst, Tail(entries))
         IN  IF NameOf(src) = "common" /\ ~nxt.is_dir
             THEN rest
             ELSE IF nxt.name \in IGNORE_DIRS
             THEN rest
             ELSE <<[src |-> Append(src, nxt.name),
                     dst |-> Append(dst, nxt.name)]>> \o rest

\* dst.parent.mkdir(parents=True): the directory and its ancestors
MkdirParents(d) == {SubSeq(d, 1, n) : n \in 0..Len(d)}

\* paths are name sequences below the source, respectively destination,
\* directory; the walk starts with the pair (source, destination)
InitWalk ==
    /\ pc = "walk"
    /\ fs \in Sources
    /\ stack = <<[src |-> <<>>, dst |-> <<>>]>>
    /\ parsed = <<>>
    /\ after = <<>>
    /\ dest_files = <<>>
    /\ dest_dirs = {}
    /\ parent_name = ""
    /\ src_tree = <<>>
    /\ tree = <<>>
    /\ changed = FALSE
    /\ out = <<>>
    /\ result = <<>>
    /\ lines = <<>>
    /\ estates = {}
    /\ alternatives = <<>>
    /\ idx = 1
    /\ res = <<>>
    /\ emitted = <<>>
    /\ text = <<>>
    /\ ptree = <<>>
    /\ reparsed = <<>>
    /\ source_type = ""
    /\ in_file = <<>>
    /\ lineno = 1
    /\ blocks = <<>>
    /\ out_file = <<>>

\* one iteration of "while stack" popping a directory
VisitDir ==
    /\ pc = "walk"
    /\ stack # <<>>
    /\ LET top == stack[Len(stack)]
           node == EntryAt(fs, top.src)
       IN  /\ node.is_dir
           /\ stack' = SubSeq(stack, 1, Len(stack) - 1)
                          \o Pushed(top.src, top.dst, node.entries)
    /\ UNCHANGED legacy_vars
    /\ UNCHANGED <<transform_vars, load_vars, parse_vars, fs, parsed, after,
                   dest_files, dest_dirs>>

\* one iteration of "while stack" popping a file: process_file, then the
\* write when it returned a tree
VisitFile ==
    /\ pc = "walk"
    /\ stack # <<>>
    /\ LET top == stack[Len(stack)]
           node == EntryAt(fs, top.src)
           r == process_file(NameOf(ParentOf(top.src)), node.content,
                             modifiers, ignore_static)
       IN  /\ ~node.is_dir
           /\ parsed' = Append(parsed, top.src)
           /\ after' = Append(after, r.tree)
           /\ out' = out \o r.out
           /\ IF r.failed
              THEN /\ pc' = "failed"
                   /\ UNCHANGED <<stack, dest_files, dest_dirs>>
              ELSE /\ pc' = pc
                   /\ stack' = SubSeq(stack, 1, Len(stack) - 1)
                   /\ IF r.ret # <<>>
                      THEN /\ dest_dirs' =
                                IF ParentOf(top.dst) \in dest_dirs
                                THEN dest_dirs
                                ELSE dest_dirs
                                       \cup MkdirParents(ParentOf(top.dst))
                           /\ dest_files' =
                                Append(dest_files,
                                       [path |-> top.dst, tree |-> r.ret])
                      ELSE UNCHANGED <<dest_files, dest_dirs>>
    /\ UNCHANGED legacy_vars
    /\ UNCHANGED <<parent_name, src_tree, tree, changed, result, fs, load_vars,
                   parse_vars>>

NextWalk == VisitDir \/ VisitFile

SpecWalk == InitWalk /\ [][NextWalk]_vars

----------------------------------------------------------------------------
(* eu4_multiplier.py: the modifier table builder *)

\* An identifier is a sequence of tokens: a placeholder is one token, any
\* other token is text no part of which belongs to a placeholder.
REGEX_ESTATE == "<estate>"

REGEX_FACTION == "<faction>"

REGEX_POWER == "<government_power_type_id>"

REGEX_TECH == "<tech>"

Whitespace == {" ", "\n"}

Tokens == {"x", REGEX_ESTATE, REGEX_FACTION, REGEX_POWER, REGEX_TECH}

\* toml['gen_modifiers']['multiplier']
multiplier == 10

\* toml['gen_modifiers']['ignores']
ignores == {<<"x", "x">>}

\* the sets load_factions and load_powers return, and the configured
\* tech_types
factions == {"temples"}

government_powers == {"mil", "adm"}

tech_types == {"dip"}

EstateSets == {{}, {"x", "church"}}

\* override maps: none, one under a template, one under a key that a
\* template expands to
AlternativeMaps ==
    {<<>>,
     (<<REGEX_ESTATE>> :> 2),
     (<<"x">> :> 3) @@ (<<"x", REGEX_FACTION>> :> 4)}

RECURSIVE SeqsUpTo(_, _)
\* the sequences over S of length at most n
SeqsUpTo(S, n) ==
    IF n = 0
    THEN {<<>>}
    ELSE SeqsUpTo(S, n - 1)
         \cup {Append(q, t) : q \in {r \in SeqsUpTo(S, n - 1) : Len(r) = n - 1},
                              t \in S}

\* a line as read from the file: the identifier and the line end
LinesOf(ident) == ident \o <<"\n">>

RECURSIVE rstrip(_)
\* str.rstrip: drops the trailing whitespace
rstrip(line) ==
    IF line # <<>> /\ line[Len(line)] \in Whitespace
    THEN rstrip(SubSeq(line, 1, Len(line) - 1))
    ELSE line

\* REGEX.fullmatch(ident) is not None
Matches(placeholder, ident) ==
    placeholder \in {ident[i] : i \in 1..Len(ident)}

\* the split of "(?P<before>.*)<placeholder>(?P<after>.*)": the greedy
\* first group runs up to the last placeholder
MatchAt(placeholder, ident) ==
    CHOOSE i \in 1..Len(ident) :
        /\ ident[i] = placeholder
        /\ \A j \in (i + 1)..Len(ident) : ident[j] # placeholder

\* an expansion that also keeps the template as a key
Expand_keep_template(placeholder, ident, names) ==
    LET i == MatchAt(placeholder, ident)
    IN  {SubSeq(ident, 1, i - 1) \o <<n>> \o SubSeq(ident, i + 1, Len(ident)) :
           n \in names} \cup {ident}

\* the keys f"{before}{name}{after}" of one for loop
Expand(placeholder, ident, names) ==
    LET i == MatchAt(placeholder, ident)
    IN  {SubSeq(ident, 1, i - 1) \o <<n>> \o SubSeq(ident, i + 1, Len(ident)) :
           n \in names}

\* a lookup of the override under the key stored
Lookup_by_key(alts, ident, key, default) ==
    IF key \in DOMAIN alts THEN alts[key] ELSE default

\* alternatives.get(ident, multiplier), whatever key is stored
Lookup(alts, ident, key, default) ==
    IF ident \in DOMAIN alts THEN alts[ident] ELSE default

\* res[key] = alternatives.get(ident, multiplier) for every key of keys
Store(table, keys, ident) ==
    [k \in (DOMAIN table) \cup keys |->
        IF k \in keys
        THEN Lookup(alternatives, ident, k, multiplier)
        ELSE table[k]]

InitLoad ==
    /\ pc = "load"
    /\ lines \in {[i \in DOMAIN q |-> LinesOf(q[i])] :
                     q \in SeqsUpTo(SeqsUpTo(Tokens, MaxIdentLen), MaxLines)}
    /\ estates \in EstateSets
    /\ alternatives \in AlternativeMaps
    /\ idx = 1
    /\ res = <<>>
    /\ emitted = <<>>
    /\ text = <<>>
    /\ ptree = <<>>
    /\ reparsed = <<>>
    /\ source_type = ""
    /\ in_file = <<>>
    /\ lineno = 1
    /\ blocks = <<>>
    /\ out_file = <<>>
    /\ parent_name = ""
    /\ src_tree = <<>>
    /\ tree = <<>>
    /\ changed = FALSE
    /\ out = <<>>
    /\ result = <<>>
    /\ fs = <<>>
    /\ stack = <<>>
    /\ parsed = <<>>
    /\ after = <<>>
    /\ dest_files = <<>>
    /\ dest_dirs = {}

\* the line the loop is at, stripped
Ident == rstrip(lines[idx])

\* one iteration storing the keys of a line
StoreLine(keys) ==
    /\ res' = Store(res, keys, Ident)
    /\ emitted' = Append(emitted, keys)
    /\ idx' = idx + 1
    /\ UNCHANGED legacy_vars
    /\ UNCHANGED <<pc, transform_vars, walk_vars, parse_vars, lines, estates,
                   alternatives>>

\* a line filtered out by "not in ignores"
SkipLine ==
    /\ pc = "load" /\ idx <= Len(lines)
    /\ Ident \in ignores
    /\ StoreLine({})

ExpandEstate ==
    /\ pc = "load" /\ idx <= Len(lines)
    /\ Ident \notin ignores
    /\ Matches(REGEX_ESTATE, Ident)
    /\ StoreLine(Expand(REGEX_ESTATE, Ident, estates))

ExpandFaction ==
    /\ pc = "load" /\ idx <= Len(lines)
    /\ Ident \notin ignores
    /\ ~Matches(REGEX_ESTATE, Ident)
    /\ Matches(REGEX_FACTION, Ident)
    /\ StoreLine(Expand(REGEX_FACTION, Ident, factions))

ExpandPower ==
    /\ pc = "load" /\ idx <= Len(lines)
    /\ Ident \notin ignores
    /\ ~Matches(REGEX_ESTATE, Ident)
    /\ ~Matches(REGEX_FACTION, Ident)
    /\ Matches(REGEX_POWER, Ident)
    /\ StoreLine(Expand(REGEX_POWER, Ident, government_powers))

ExpandTech ==
    /\ pc = "load" /\ idx <= Len(lines)
    /\ Ident \notin ignores
    /\ ~Matches(REGEX_ESTATE, Ident)
    /\ ~Matches(REGEX_FACTION, Ident)
    /\ ~Matches(REGEX_POWER, Ident)
    /\ Matches(REGEX_TECH, Ident)
    /\ StoreLine(Expand(REGEX_TECH, Ident, tech_types))

PlainLine ==
    /\ pc = "load" /\ idx <= Len(lines)
    /\ Ident \notin ignores
    /\ ~Matches(REGEX_ESTATE, Ident)
    /\ ~Matches(REGEX_FACTION, Ident)
    /\ ~Matches(REGEX_POWER, Ident)
    /\ ~Matches(REGEX_TECH, Ident)
    /\ StoreLine({Ident})

NextLoad ==
    \/ SkipLine
    \/ ExpandEstate
    \/ ExpandFaction
    \/ ExpandPower
    \/ ExpandTech
    \/ PlainLine

SpecLoad == InitLoad /\ [][NextLoad]_vars

----------------------------------------------------------------------------
(* paradox_parser.py: the serializer *)

\* A text is a sequence of characters.  An Identifier or String value is
\* its text, a Color component the text of its digits, and a Number value
\* is IntVal(v) for the int v or FloatVal(m, e) for the float m / 10^e, with m
\* not divisible by 10 unless e = 0.
IntVal(v) == [kind |-> "int", v |-> v]

FloatVal(m, e) == [kind |-> "float", m |-> m, e |-> e]

DigitChars == <<"0", "1", "2", "3", "4", "5", "6", "7", "8", "9">>

RECURSIVE DigitsOf(_)
\* the decimal digits of the natural number n
DigitsOf(n) ==
    IF n < 10
    THEN <<DigitChars[n + 1]>>
    ELSE DigitsOf(n \div 10) \o <<DigitChars[(n % 10) + 1]>>

Zeros(n) == [i \in 1..n |-> "0"]

Abs(n) == IF n < 0 THEN -n ELSE n

RECURSIVE StripZeros(_)
\* the digits without their trailing zeros
StripZeros(ds) ==
    IF Len(ds) > 1 /\ ds[Len(ds)] = "0"
    THEN StripZeros(SubSeq(ds, 1, Len(ds) - 1))
    ELSE ds

\* str(int)
int_str(v) == (IF v < 0 THEN <<"-">> ELSE <<>>) \o DigitsOf(Abs(v))

\* repr(float): the shortest digits, in fixed notation when the decimal
\* point lies within -4 < decpt <= 16 and in exponent notation otherwise
float_repr(m, e) ==
    LET ds == DigitsOf(Abs(m))
        decpt == Len(ds) - e
        sig == StripZeros(ds)
        exp10 == decpt - 1
        sign == IF m < 0 THEN <<"-">> ELSE <<>>
    IN  IF m = 0
        THEN <<"0", ".", "0">>
        ELSE IF decpt <= -4 \/ decpt > 16
        THEN sign \o <<sig[1]>>
             \o (IF Len(sig) > 1 THEN <<".">> \o Tail(sig) ELSE <<>>)
             \o <<"e", IF exp10 < 0 THEN "-" ELSE "+">>
             \o (IF Abs(exp10) < 10 THEN <<"0">> ELSE <<>>)
             \o DigitsOf(Abs(exp10))
        ELSE IF decpt <= 0
        THEN sign \o <<"0", ".">> \o Zeros(-decpt) \o ds
        ELSE IF decpt >= Len(ds)
        THEN sign \o ds \o <<".", "0">>
        ELSE sign \o SubSeq(ds, 1, decpt) \o <<".">>
             \o SubSeq(ds, decpt + 1, Len(ds))

\* f"{self.value}" of a Number
number_str(v) == IF v.kind = "int" THEN int_str(v.v) ELSE float_repr(v.m, v.e)

Tabs(depth) == [i \in 1..depth |-> "\t"]

RECURSIVE Concat(_)
Concat(ss) == IF ss = <<>> THEN <<>> ELSE Head(ss) \o Concat(Tail(ss))

\* print_pdx_script of Identifier and String
print_scalar(node) == node.value

\* print_pdx_script of Color
print_color(node) ==
    <<"{", " ">> \o node.red \o <<" ">> \o node.green \o <<" ">>
    \o node.blue \o <<" ", "}">>

\* print_pdx_script of Listing
print_listing(node, depth) ==
    IF Len(node.elements) = 0
    THEN <<"{", " ", "}">>
    ELSE IF Len(node.elements) = 1
    THEN <<"{", " ">> \o print_scalar(node.elements[1]) \o <<" ", "}">>
    ELSE <<"{", "\n">>
         \o Concat([i \in 1..Len(node.elements) |->
                      Tabs(depth + 1) \o print_scalar(node.elements[i])
                      \o <<"\n">>])
         \o Tabs(depth) \o <<"}">>

RECURSIVE print_value(_, _), print_block(_, _), print_expression(_, _)

\* rhs.print_pdx_script(depth, file=file), by the class of rhs
print_value(node, depth) ==
    IF node.kind \in {"Identifier", "String"} THEN print_scalar(node)
    ELSE IF node.kind = "Number" THEN number_str(node.value)
    ELSE IF node.kind = "Color" THEN print_color(node)
    ELSE IF node.kind = "Listing" THEN print_listing(node, depth)
    ELSE print_block(node, depth)

\* print_pdx_script of Block
print_block(node, depth) ==
    IF Len(node.entries) = 0
    THEN <<"{", " ", "}">>
    ELSE IF /\ Len(node.entries) = 1
            /\ node.entries[1].rhs.kind \notin {"Block", "Listing"}
    THEN <<"{", " ">> \o print_scalar(node.entries[1].lhs)
         \o <<" ", "=", " ">> \o print_value(node.entries[1].rhs, 0)
         \o <<" ", "}">>
    ELSE <<"{", "\n">>
         \o Concat([i \in 1..Len(node.entries) |->
                      print_expression(node.entries[i], depth + 1)])
         \o Tabs(depth) \o <<"}">>

\* print_pdx_script of Expression
print_expression(exp, depth) ==
    Tabs(depth) \o print_scalar(exp.lhs) \o <<" ", "=", " ">>
    \o print_value(exp.rhs, depth) \o <<"\n">>

\* the loop of process_target writing the Expressions of a tree
print_file(t) == Concat([i \in 1..Len(t) |-> print_expression(t[i], 0)])

----------------------------------------------------------------------------
(* paradox_parser.py: the grammar *)

\* pp.nums, pp.alphas and the default whitespace of pyparsing
nums == {"0", "1", "2", "3", "4", "5", "6", "7", "8", "9"}

alphas ==
    {"a", "b", "c", "d", "e", "f", "g", "h", "i", "j", "k", "l", "m", "n",
     "o", "p", "q", "r", "s", "t", "u", "v", "w", "x", "y", "z",
     "A", "B", "C", "D", "E", "F", "G", "H", "I", "J", "K", "L", "M", "N",
     "O", "P", "Q", "R", "S", "T", "U", "V", "W", "X", "Y", "Z"}

alphanums == alphas \cup nums

DEFAULT_WHITE_CHARS == {" ", "\t", "\n", "\r"}

\* the first position from loc on whose character is not in S
ScanWhile(t, loc, S) ==
    LET stops == {j \in loc..Len(t) : t[j] \notin S}
    IN  IF stops = {}
        THEN Len(t) + 1
        ELSE CHOOSE j \in stops : \A h \in stops : j <= h

\* the whitespace skipped before every token
SkipWs(t, loc) == ScanWhile(t, loc, DEFAULT_WHITE_CHARS)

\* a failed match; a match is [ok, loc, val] with loc the position after it
NoMatch == [ok |-> FALSE, loc |-> 0, val |-> <<>>]

Match(l, v) == [ok |-> TRUE, loc |-> l, val |-> v]

\* the character c stands at the first position after the whitespace
CharAt(t, loc, c) == SkipWs(t, loc) <= Len(t) /\ t[SkipWs(t, loc)] = c

\* pp.Word(init, body): the longest run of body characters after an init
\* character
Word(t, loc, init, body) ==
    LET Run(p, q) == Match(q, SubSeq(t, p, q - 1))
        At(p) == IF p <= Len(t) /\ t[p] \in init
                 THEN Run(p, ScanWhile(t, p + 1, body))
                 ELSE NoMatch
    IN  At(SkipWs(t, loc))

\* _IDENTIFIER and _parse_identifier
_IDENTIFIER(t, loc) ==
    LET Parsed(w) == IF w.ok THEN Match(w.loc, Identifier(w.val)) ELSE NoMatch
    IN  Parsed(Word(t, loc, alphanums \cup {"_", "-"},
                    alphanums \cup {"_", ".", ":", "-"}))

\* _STRING and _parse_string: a multiline quoted string, quotes kept
_STRING(t, loc) ==
    LET Close(p, q) == IF q <= Len(t)
                       THEN Match(q + 1, String(SubSeq(t, p, q)))
                       ELSE NoMatch
        At(p) == IF p <= Len(t) /\ t[p] = "\""
                 THEN Close(p, ScanWhile(t, p + 1,
                                         {c \in Range(t) : c # "\""}))
                 ELSE NoMatch
    IN  At(SkipWs(t, loc))

DigitVal(c) == CHOOSE d \in 0..9 : DigitChars[d + 1] = c

RECURSIVE NatOf(_)
\* the number written by the digits ds
NatOf(ds) ==
    IF ds = <<>>
    THEN 0
    ELSE NatOf(SubSeq(ds, 1, Len(ds) - 1)) * 10 + DigitVal(ds[Len(ds)])

RECURSIVE Normalize(_, _)
\* the float m / 10^e with the fewest decimals (a zero has no sign)
Normalize(m, e) ==
    IF e > 0 /\ m % 10 = 0
    THEN Normalize(m \div 10, e - 1)
    ELSE FloatVal(m, e)

\* _NUMBER and _parse_number: the regex [-+]?\d+\.?\d* and the value
\* float(text) if '.' in text else int(text).  The digits start at d, the
\* integer part ends before i, a dot stands at i, the match ends before f.
_NUMBER(t, loc) ==
    LET Value(sign, d, i, dot, f) ==
            IF i > d
            THEN Match(f, Number(
                     IF dot
                     THEN Normalize(sign * NatOf(SubSeq(t, d, i - 1)
                                                 \o SubSeq(t, i + 1, f - 1)),
                                    f - i - 1)
                     ELSE IntVal(sign * NatOf(SubSeq(t, d, i - 1)))))
            ELSE NoMatch
        Fraction(sign, d, i, dot) ==
            Value(sign, d, i, dot, IF dot THEN ScanWhile(t, i + 1, nums) ELSE i)
        Dot(sign, d, i) == Fraction(sign, d, i, i <= Len(t) /\ t[i] = ".")
        Digits(sign, d) == Dot(sign, d, ScanWhile(t, d, nums))
        At(p) == Digits(IF p <= Len(t) /\ t[p] = "-" THEN -1 ELSE 1,
                        IF p <= Len(t) /\ t[p] \in {"-", "+"} THEN p + 1 ELSE p)
    IN  At(SkipWs(t, loc))

\* _COLOR and _parse_color: three runs of digits between braces
_COLOR(t, loc) ==
    LET Close(r, g, b) ==
            IF r.ok /\ g.ok /\ b.ok /\ CharAt(t, b.loc, "}")
            THEN Match(SkipWs(t, b.loc) + 1, Color(r.val, g.val, b.val))
            ELSE NoMatch
        Blue(r, g) == Close(r, g, Word(t, g.loc, nums, nums))
        Green(r) == Blue(r, Word(t, r.loc, nums, nums))
        At(p) == IF p <= Len(t) /\ t[p] = "{"
                 THEN Green(Word(t, p + 1, nums, nums))
                 ELSE NoMatch
    IN  At(SkipWs(t, loc))

\* the stable sort of the matches by descending end position, then the
\* first of them: pp.Or
RECURSIVE InsertMatch(_, _)
InsertMatch(x, sorted) ==
    IF sorted = <<>>
    THEN <<x>>
    ELSE IF Head(sorted).loc >= x.loc
    THEN <<Head(sorted)>> \o InsertMatch(x, Tail(sorted))
    ELSE <<x>> \o sorted

RECURSIVE SortMatches(_)
SortMatches(ms) ==
    IF ms = <<>>
    THEN <<>>
    ELSE InsertMatch(ms[Len(ms)], SortMatches(SubSeq(ms, 1, Len(ms) - 1)))

RECURSIVE Successes(_)
Successes(ms) ==
    IF ms = <<>>
    THEN <<>>
    ELSE (IF Head(ms).ok THEN <<Head(ms)>> ELSE <<>>) \o Successes(Tail(ms))

\* the first alternative that matches: pp.MatchFirst in place of pp.Or
MatchFirst(ms) ==
    IF Successes(ms) = <<>> THEN NoMatch ELSE Head(Successes(ms))

Or(ms) ==
    IF Successes(ms) = <<>> THEN NoMatch ELSE Head(SortMatches(Successes(ms)))

\* the matches of a repetition: the values and the position after the last
Repeated(first, rest) ==
    [loc |-> rest.loc, vals |-> <<first.val>> \o rest.vals]

RECURSIVE ListingElements(_, _)
\* pp.OneOrMore(_IDENTIFIER ^ _STRING), as far as it goes
ListingElements(t, loc) ==
    LET More(e) == IF e.ok
                   THEN Repeated(e, ListingElements(t, e.loc))
                   ELSE [loc |-> loc, vals |-> <<>>]
    IN  More(Or(<<_IDENTIFIER(t, loc), _STRING(t, loc)>>))

\* _LISTING and _parse_listing
_LISTING(t, loc) ==
    LET Close(es) == IF es.vals # <<>> /\ CharAt(t, es.loc, "}")
                     THEN Match(SkipWs(t, es.loc) + 1, Listing(es.vals))
                     ELSE NoMatch
        At(p) == IF p <= Len(t) /\ t[p] = "{"
                 THEN Close(ListingElements(t, p + 1))
                 ELSE NoMatch
    IN  At(SkipWs(t, loc))

RECURSIVE _RHS(_, _), _BLOCK(_, _), _EXPRESSION(_, _), BlockItems(_, _)

\* _RHS = _NUMBER ^ _COLOR ^ _LISTING ^ _BLOCK ^ _IDENTIFIER ^ _STRING
_RHS(t, loc) ==
    Or(<<_NUMBER(t, loc), _COLOR(t, loc), _LISTING(t, loc), _BLOCK(t, loc),
         _IDENTIFIER(t, loc), _STRING(t, loc)>>)

\* _EXPRESSION = _LHS + _RHS and _parse_expression
_EXPRESSION(t, loc) ==
    LET Parsed(l, r) == IF r.ok
                        THEN Match(r.loc, Expression(l.val, r.val))
                        ELSE NoMatch
        Rhs(l) == IF l.ok /\ CharAt(t, l.loc, "=")
                  THEN Parsed(l, _RHS(t, SkipWs(t, l.loc) + 1))
                  ELSE NoMatch
    IN  Rhs(_IDENTIFIER(t, loc))

\* the ZeroOrMore of pp.nested_expr: a quoted string (its ignore_expr), a
\* nested group or the content, as far as it goes
BlockItems(t, loc) ==
    LET More(item) == IF item.ok
                      THEN Repeated(item, BlockItems(t, item.loc))
                      ELSE [loc |-> loc, vals |-> <<>>]
        Item(q, g) ==
            IF q.ok /\ "\n" \notin Range(q.val.value)
                    /\ "\r" \notin Range(q.val.value)
            THEN Match(q.loc, q.val.value)
            ELSE IF CharAt(t, loc, "{") /\ CharAt(t, g.loc, "}")
            THEN Match(SkipWs(t, g.loc) + 1, g.vals)
            ELSE _EXPRESSION(t, loc)
    IN  More(Item(_STRING(t, loc),
                  IF CharAt(t, loc, "{")
                  THEN BlockItems(t, SkipWs(t, loc) + 1)
                  ELSE [loc |-> loc, vals |-> <<>>]))

\* _BLOCK = pp.nested_expr('{', '}', _EXPRESSION) and _parse_block
_BLOCK(t, loc) ==
    LET Close(es) == IF CharAt(t, es.loc, "}")
                     THEN Match(SkipWs(t, es.loc) + 1, Block(es.vals))
                     ELSE NoMatch
        At(p) == IF p <= Len(t) /\ t[p] = "{"
                 THEN Close(BlockItems(t, p + 1))
                 ELSE NoMatch
    IN  At(SkipWs(t, loc))

RECURSIVE _PARSER(_, _)
\* _PARSER = _EXPRESSION[...], as far as it goes
_PARSER(t, loc) ==
    LET More(e) == IF e.ok
                   THEN Repeated(e, _PARSER(t, e.loc))
                   ELSE [loc |-> loc, vals |-> <<>>]
    IN  More(_EXPRESSION(t, loc))

\* parse_file with parse_all=True: the whole text has to be consumed
parse_file(t) ==
    LET Whole(r) == IF SkipWs(t, r.loc) > Len(t)
                    THEN [ok |-> TRUE, tree |-> r.vals]
                    ELSE [ok |-> FALSE, tree |-> <<>>]
    IN  Whole(_PARSER(t, 1))

----------------------------------------------------------------------------
(* Script text through parse_file, and trees through print_pdx_script and
   parse_file *)

\* values of the trees that are printed
ListingElementValues == {Identifier(<<"1">>), String(<<"\"", "s", "\"">>)}

PrintLeaves ==
    {Expression(Identifier(<<"k">>), v) :
        v \in {Identifier(<<"a">>), Identifier(<<"1", "a">>),
                String(<<"\"", "s", "\"">>),
                Number(IntVal(10)), Number(FloatVal(15, 1)),
                Number(FloatVal(1, 5)),
                Color(<<"1">>, <<"2">>, <<"3">>),
                Block(<<>>)}
              \cup {Listing(es) :
                      es \in SeqsUpTo(ListingElementValues, MaxListLen)}}

PrintTrees ==
    UNION {ForestsOf(n, {<<"k">>}, PrintLeaves) : n \in 0..MaxParseNodes}

\* rhs texts: every short text over a few characters, and some others
RhsChars == {"1", ".", "a", "-", "+"}

RhsTexts ==
    SeqsUpTo(RhsChars, MaxRhsLen)
    \cup {<<"1", "0">>,
          <<"1", ".", "5", ".", "2">>,
          <<"0", ".", "0", "0", "0", "0", "1">>,
          <<"\"", "a", " ", "b", "\"">>,
          <<"{", " ", "}">>,
          <<"{", " ", "a", " ", "}">>,
          <<"{", " ", "1", " ", "2", " ", "3", " ", "}">>,
          <<"{", "1", " ", "2", " ", "a", "}">>,
          <<"{", " ", "a", " ", "=", " ", "1", " ", "}">>}

\* the files "k = <rhs>"
FileTexts == {<<"k", " ", "=", " ">> \o r : r \in RhsTexts}

InitParse ==
    /\ \/ /\ pc = "text"
          /\ text \in FileTexts
          /\ ptree = <<>>
       \/ /\ pc = "tree"
          /\ text = <<>>
          /\ ptree \in PrintTrees
    /\ reparsed = <<>>
    /\ source_type = ""
    /\ in_file = <<>>
    /\ lineno = 1
    /\ blocks = <<>>
    /\ out_file = <<>>
    /\ parent_name = ""
    /\ src_tree = <<>>
    /\ tree = <<>>
    /\ changed = FALSE
    /\ out = <<>>
    /\ result = <<>>
    /\ fs = <<>>
    /\ stack = <<>>
    /\ parsed = <<>>
    /\ after = <<>>
    /\ dest_files = <<>>
    /\ dest_dirs = {}
    /\ lines = <<>>
    /\ estates = {}
    /\ alternatives = <<>>
    /\ idx = 1
    /\ res = <<>>
    /\ emitted = <<>>

\* parse_file on the text of a file
ParseFile ==
    /\ pc = "text"
    /\ LET r == parse_file(text)
       IN  /\ ptree' = r.tree
           /\ pc' = IF r.ok THEN "tree" ELSE "error"
    /\ UNCHANGED legacy_vars
    /\ UNCHANGED <<text, reparsed, parent_name, src_tree, tree, changed, out,
                   result, walk_vars, load_vars>>

\* print_pdx_script of every Expression of the tree
PrintTree ==
    /\ pc = "tree"
    /\ text' = print_file(ptree)
    /\ pc' = "printed"
    /\ UNCHANGED legacy_vars
    /\ UNCHANGED <<ptree, reparsed, parent_name, src_tree, tree, changed, out,
                   result, walk_vars, load_vars>>

\* parse_file on the printed text
Reparse ==
    /\ pc = "printed"
    /\ reparsed' = parse_file(text)
    /\ pc' = "reparsed"
    /\ UNCHANGED legacy_vars
    /\ UNCHANGED <<text, ptree, parent_name, src_tree, tree, changed, out,
                   result, walk_vars, load_vars>>

NextParse == ParseFile \/ PrintTree \/ Reparse

SpecParse == InitParse /\ [][NextParse]_vars

----------------------------------------------------------------------------
(* eu4_ideas_multiplier.py: the line-oriented processor *)

\* the characters the regex class \s matches (of those that occur here)
RegexSpace == {" ", "\t", "\n", "\r", "\f"}

\* the end of the run of \S characters of line t that starts at p
NonSpaceRun(t, p) == ScanWhile(t, p, Range(t) \ RegexSpace)

\* (?:#.*)? up to the end of the string, from e: '.' matches no line end
CommentToEnd(t, e) ==
    IF e > Len(t)
    THEN TRUE
    ELSE t[e] = "#" /\ \A j \in (e + 1)..Len(t) : t[j] # "\n"

\* re.fullmatch(r"\s*(\S+)\s+=\s+\{\s*(?:#.*)?", line) is not None
OpenMatch(t) ==
    LET Brace(d0, d) ==
            /\ d > d0 /\ d <= Len(t) /\ t[d] = "{"
            /\ CommentToEnd(t, ScanWhile(t, d + 1, RegexSpace))
        Equals(b, c) ==
            /\ c > b /\ c <= Len(t) /\ t[c] = "="
            /\ Brace(c + 1, ScanWhile(t, c + 1, RegexSpace))
        Key(a, b) == b > a /\ Equals(b, ScanWhile(t, b, RegexSpace))
        Start(a) == Key(a, NonSpaceRun(t, a))
    IN  Start(ScanWhile(t, 1, RegexSpace))

\* match.group(1) of that match
OpenName(t) ==
    LET Name(a) == SubSeq(t, a, NonSpaceRun(t, a) - 1)
    IN  Name(ScanWhile(t, 1, RegexSpace))

\* re.fullmatch(r"\s*\}\s*(?:#.*)?", line) is not None
CloseMatch(t) ==
    LET Brace(a) ==
            /\ a <= Len(t) /\ t[a] = "}"
            /\ CommentToEnd(t, ScanWhile(t, a + 1, RegexSpace))
    IN  Brace(ScanWhile(t, 1, RegexSpace))

\* the match of r"(\S+)\s+=\s+(-?\d+\.?\d*)" that starts at s: the key
\* ends before key_end, the number starts at num and ends before end
AssignMatch(t, s) ==
    LET Found(b, d, f) ==
            [ok |-> TRUE, start |-> s, key_end |-> b, num |-> d, end |-> f]
        Fraction(b, d, i) ==
            Found(b, d, IF i <= Len(t) /\ t[i] = "."
                        THEN ScanWhile(t, i + 1, nums)
                        ELSE i)
        Digits(b, d, n) ==
            IF ScanWhile(t, n, nums) > n
            THEN Fraction(b, d, ScanWhile(t, n, nums))
            ELSE NoMatch
        Value(b, c0, d) ==
            IF d > c0
            THEN Digits(b, d, IF d <= Len(t) /\ t[d] = "-" THEN d + 1 ELSE d)
            ELSE NoMatch
        Equals(b, c) ==
            IF c > b /\ c <= Len(t) /\ t[c] = "="
            THEN Value(b, c + 1, ScanWhile(t, c + 1, RegexSpace))
            ELSE NoMatch
        Key(b) == Equals(b, ScanWhile(t, b, RegexSpace))
    IN  IF s <= Len(t) /\ t[s] \notin RegexSpace
        THEN Key(NonSpaceRun(t, s))
        ELSE NoMatch

\* fullmatch of r"level_cost_\d+" on a key
level_cost == <<"l", "e", "v", "e", "l", "_", "c", "o", "s", "t", "_">>

max_level == <<"m", "a", "x", "_", "l", "e", "v", "e", "l">>

\* the block names of the predicates; chance is an illegal modifier too
trigger == <<"t", "r", "i", "g", "g", "e", "r">>

ai_will_do == <<"a", "i", "_", "w", "i", "l", "l", "_", "d", "o">>

potential == <<"p", "o", "t", "e", "n", "t", "i", "a", "l">>

allow == <<"a", "l", "l", "o", "w">>

chance == <<"c", "h", "a", "n", "c", "e">>

default == <<"d", "e", "f", "a", "u", "l", "t">>

SourceTypes == {"ideas", "policies", "custom_ideas"}

\* any(re.fullmatch(illegal_modifier, key) ...) with the illegal_modifiers
\* of the source type
Illegal(type, key) ==
    /\ type = "custom_ideas"
    /\ \/ key \in {max_level, chance, default}
       \/ /\ Len(key) > Len(level_cost)
          /\ SubSeq(key, 1, Len(level_cost)) = level_cost
          /\ \A j \in (Len(level_cost) + 1)..Len(key) : key[j] \in nums

\* args.multiplier, by default
legacy_multiplier == 10

\* float(text) of a text -?\d+\.?\d*
FloatOf(g) ==
    LET Signed(sign, ds) ==
            LET i == ScanWhile(ds, 1, nums)
            IN  Normalize(sign * NatOf(SubSeq(ds, 1, i - 1)
                                       \o SubSeq(ds, i + 1, Len(ds))),
                          IF i <= Len(ds) THEN Len(ds) - i ELSE 0)
    IN  IF g[1] = "-" THEN Signed(-1, Tail(g)) ELSE Signed(1, g)

\* float * multiplier
Times(v, k) == Normalize(v.m * k, v.e)

\* process_line on the match m of line t
process_line(type, t, m) ==
    IF Illegal(type, SubSeq(t, m.start, m.key_end - 1))
    THEN SubSeq(t, m.start, m.end - 1)
    ELSE LET Repr(v) == float_repr(v.m, v.e)
         IN  SubSeq(t, m.start, m.key_end - 1) \o <<" ", "=", " ">>
             \o Repr(Times(FloatOf(SubSeq(t, m.num, m.end - 1)),
                           legacy_multiplier))

\* the starts, from s on, of the matches of the pattern in line t
MatchStarts(t, s) == {j \in s..Len(t) : AssignMatch(t, j).ok}

RECURSIVE sub(_, _, _)
\* re.sub(pattern, process_line, line) from position s on: the leftmost
\* match is replaced and the search goes on behind it
sub(type, t, s) ==
    LET Replace(m) ==
            SubSeq(t, s, m.start - 1) \o process_line(type, t, m)
            \o sub(type, t, m.end)
        First(starts) ==
            IF starts = {}
            THEN SubSeq(t, s, Len(t))
            ELSE Replace(AssignMatch(t, CHOOSE j \in starts :
                                           \A h \in starts : j <= h))
    IN  First(MatchStarts(t, s))

\* ideas_predicate, policies_predicate, custom_ideas_predicate
block_predicate(type, bs) ==
    IF type = "ideas"
    THEN \A bad_block \in {trigger, ai_will_do} : bad_block \notin Range(bs)
    ELSE IF type = "policies"
    THEN \A bad_block \in {potential, allow, ai_will_do} :
            bad_block \notin Range(bs)
    ELSE chance \notin Range(bs)

\* the lines of the input files
base_tax == <<"b", "a", "s", "e", "_", "t", "a", "x">>

OpenLine(name) == name \o <<" ", "=", " ", "{">>

Assign(key, value) == key \o <<" ", "=", " ">> \o value

WithComment(t) == t \o <<" ", "#", " ", "c">>

WithEnd(t) == t \o <<"\n">>

LegacyLines ==
    {WithEnd(OpenLine(trigger)), WithEnd(OpenLine(chance)),
     WithEnd(OpenLine(allow)),
     WithEnd(OpenLine(allow) \o <<" ">> \o Assign(base_tax, <<"1">>)
             \o <<" ", "}">>),
     WithEnd(WithComment(OpenLine(trigger))),
     WithEnd(<<"}">>), WithEnd(WithComment(<<"}">>)),
     WithEnd(<<"\t">> \o Assign(base_tax, <<"1">>)),
     WithEnd(Assign(max_level, <<"-", "1", ".", "5">>)),
     WithEnd(Assign(base_tax, <<"y", "e", "s">>))}

\* a last line without its line end
LastLines == {WithComment(<<"}">>)}

\* the files: lines with their line ends, and possibly a last line without
LegacyFiles ==
    UNION {{f, f \o <<l>>} :
             f \in SeqsUpTo(LegacyLines, MaxLegacyLines - 1), l \in LastLines}
    \cup SeqsUpTo(LegacyLines, MaxLegacyLines)

InitLegacy ==
    /\ pc = "legacy"
    /\ source_type \in SourceTypes
    /\ in_file \in LegacyFiles
    /\ lineno = 1
    /\ blocks = <<>>
    /\ out_file = <<>>
    /\ parent_name = ""
    /\ src_tree = <<>>
    /\ tree = <<>>
    /\ changed = FALSE
    /\ out = <<>>
    /\ result = <<>>
    /\ fs = <<>>
    /\ stack = <<>>
    /\ parsed = <<>>
    /\ after = <<>>
    /\ dest_files = <<>>
    /\ dest_dirs = {}
    /\ lines = <<>>
    /\ estates = {}
    /\ alternatives = <<>>
    /\ idx = 1
    /\ res = <<>>
    /\ emitted = <<>>
    /\ text = <<>>
    /\ ptree = <<>>
    /\ reparsed = <<>>

\* the line the loop of process_file is at
Line == in_file[lineno]

\* out_file.write(output_line) and the step to the next line
WriteLine(output_line) ==
    /\ out_file' = Append(out_file, output_line)
    /\ lineno' = lineno + 1
    /\ UNCHANGED <<pc, source_type, in_file>>

\* the line opens a block: blocks.append(match.group(1))
OpenBlock ==
    /\ pc = "legacy" /\ lineno <= Len(in_file)
    /\ OpenMatch(Line)
    /\ blocks' = Append(blocks, OpenName(Line))
    /\ WriteLine(Line)
    /\ UNCHANGED <<parent_name, src_tree, tree, changed, out, result,
                   walk_vars, load_vars, parse_vars>>

\* the line closes a block: blocks.pop(), an IndexError on an empty list
CloseBlock ==
    /\ pc = "legacy" /\ lineno <= Len(in_file)
    /\ ~OpenMatch(Line)
    /\ CloseMatch(Line)
    /\ IF blocks = <<>>
       THEN /\ pc' = "failed"
            /\ UNCHANGED legacy_vars
       ELSE /\ blocks' = SubSeq(blocks, 1, Len(blocks) - 1)
            /\ WriteLine(Line)
    /\ UNCHANGED <<parent_name, src_tree, tree, changed, out, result,
                   walk_vars, load_vars, parse_vars>>

\* any other line while block_predicate(blocks) holds: re.sub
SubstituteLine ==
    /\ pc = "legacy" /\ lineno <= Len(in_file)
    /\ ~OpenMatch(Line)
    /\ ~CloseMatch(Line)
    /\ block_predicate(source_type, blocks)
    /\ WriteLine(sub(source_type, Line, 1))
    /\ UNCHANGED <<blocks, parent_name, src_tree, tree, changed, out, result,
                   walk_vars, load_vars, parse_vars>>

\* any other line while block_predicate(blocks) fails
CopyLine ==
    /\ pc = "legacy" /\ lineno <= Len(in_file)
    /\ ~OpenMatch(Line)
    /\ ~CloseMatch(Line)
    /\ ~block_predicate(source_type, blocks)
    /\ WriteLine(Line)
    /\ UNCHANGED <<blocks, parent_name, src_tree, tree, changed, out, result,
                   walk_vars, load_vars, parse_vars>>

NextLegacy == OpenBlock \/ CloseBlock \/ SubstituteLine \/ CopyLine

SpecLegacy == InitLegacy /\ [][NextLegacy]_vars

----------------------------------------------------------------------------
(* Positions in a forest *)

RECURSIVE PathsOf(_)
\* the positions of the Expressions of forest f, as index sequences
PathsOf(f) ==
    UNION {{<<i>>} \cup
           {<<i>> \o p : p \in (IF f[i].rhs.kind = "Block"
                                THEN PathsOf(f[i].rhs.entries)
                                ELSE {})} : i \in 1..Len(f)}

RECURSIVE ExprAt(_, _)
ExprAt(f, p) ==
    IF Len(p) = 1
    THEN f[p[1]]
    ELSE ExprAt(f[p[1]].rhs.entries, Tail(p))

\* the Expression at p or one of its ancestors from level "from" down has
\* an ignore-block key
IgnoredFrom(f, p, from) ==
    \E n \in from..Len(p) :
        ExprAt(f, SubSeq(p, 1, n)).lhs.value \in IGNORE_BLOCKS

\* p lies in the subtree of a top-level key of the per-file ignore set
UnderStaticIgnore(f, p) == f[p[1]].lhs.value \in ignore_static

\* the Expression at p has a modifier-table key and a Number value
IsTarget(f, p) ==
    /\ ExprAt(f, p).lhs.value \in DOMAIN modifiers
    /\ ExprAt(f, p).rhs.kind = "Number"

Multiplied(p) ==
    /\ p \in PathsOf(tree)
    /\ ExprAt(tree, p).rhs.kind = "Number"
    /\ ExprAt(tree, p).rhs.value =
         ExprAt(src_tree, p).rhs.value
         * modifiers[ExprAt(src_tree, p).lhs.value]

Untouched(p) ==
    /\ p \in PathsOf(tree)
    /\ ExprAt(tree, p) = ExprAt(src_tree, p)

Generic == parent_name # "static_modifiers"

----------------------------------------------------------------------------
(* C1: in generic file mode an Expression whose lhs is an ignore-block key
   is left exactly as parsed, with its whole rhs subtree, whatever keys it
   holds, and the dirty flag is set only if some table-keyed Number
   outside every such Expression was multiplied. *)
C1_IgnoreBlockUntouched ==
    (pc = "done" /\ Generic) =>
        /\ \A p \in PathsOf(src_tree) :
              ExprAt(src_tree, p).lhs.value \in IGNORE_BLOCKS => Untouched(p)
        /\ changed =>
              \E p \in PathsOf(src_tree) :
                  ~IgnoredFrom(src_tree, p, 1) /\ IsTarget(src_tree, p)

\* an ignore block holding a table-keyed Number went through the transform
C1_Witness ==
    /\ pc = "done" /\ Generic
    /\ \E p \in PathsOf(src_tree) :
          /\ Len(p) > 1
          /\ IsTarget(src_tree, p)
          /\ ExprAt(src_tree, SubSeq(p, 1, Len(p) - 1)).lhs.value
               \in IGNORE_BLOCKS
          /\ Untouched(p)

(* C2: after one traversal every table-keyed Number outside the ignored
   subtrees holds its parsed value times the key's multiplier (multiplied
   once, not zero times and not twice), wherever it stands among its
   siblings and whether or not the dirty flag was already set. *)
C2_MultipliedOnce ==
    pc = "done" =>
        \A p \in PathsOf(src_tree) :
            ( /\ IsTarget(src_tree, p)
              /\ ~IgnoredFrom(src_tree, p, 1)
              /\ ~(~Generic /\ UnderStaticIgnore(src_tree, p)) )
            => Multiplied(p)

\* two table-keyed Numbers of one file, the second visited with the dirty
\* flag already set, both multiplied
C2_Witness ==
    /\ pc = "done" /\ Generic
    /\ \E p, q \in PathsOf(src_tree) :
          /\ p # q
          /\ IsTarget(src_tree, p) /\ ~IgnoredFrom(src_tree, p, 1)
          /\ IsTarget(src_tree, q) /\ ~IgnoredFrom(src_tree, q, 1)
          /\ Multiplied(p) /\ Multiplied(q)

\* p is handed to process_expression and passes its ignore-block test
Visited(p) ==
    IF Generic
    THEN ~IgnoredFrom(src_tree, p, 1)
    ELSE /\ Len(p) > 1
         /\ ~UnderStaticIgnore(src_tree, p)
         /\ ~IgnoredFrom(src_tree, p, 2)

Anomalous(p, kinds) ==
    /\ ExprAt(src_tree, p).lhs.value \in DOMAIN modifiers
    /\ ExprAt(src_tree, p).rhs.kind \in kinds

(* C3 as stated: a visited Expression with a table key and a rhs of any
   non-Number kind, Block included, is not mutated and is reported by a
   diagnostic. *)
C3_Original ==
    (pc = "done" /\ Generic) =>
        \A p \in PathsOf(src_tree) :
            ( /\ Visited(p)
              /\ Anomalous(p, {"Identifier", "String", "Color", "Listing",
                               "Block"}) )
            => (Untouched(p) /\ ExprAt(src_tree, p) \in Range(out))

(* C3 amended: a visited Expression with a table key and a rhs of kind
   Identifier, String, Color or Listing is not mutated, the transform does
   not fail on it, and exactly one diagnostic is printed for each such
   Expression; a Block under a table key gets no diagnostic. *)
C3_AnomalousReported ==
    pc = "done" =>
        /\ \A p \in PathsOf(src_tree) :
              ( /\ Visited(p)
                /\ Anomalous(p, {"Identifier", "String", "Color",
                                 "Listing"}) )
              => (Untouched(p) /\ ExprAt(src_tree, p) \in Range(out))
        /\ Len(out) =
              Cardinality({p \in PathsOf(src_tree) :
                             /\ Visited(p)
                             /\ Anomalous(p, {"Identifier", "String",
                                              "Color", "Listing"})})

\* a table key with an Identifier value was visited and reported
C3_Witness ==
    /\ pc = "done"
    /\ \E p \in PathsOf(src_tree) :
          /\ Visited(p)
          /\ Anomalous(p, {"Identifier"})
          /\ ExprAt(src_tree, p) \in Range(out)
    /\ \E p \in PathsOf(src_tree) :
          Visited(p) /\ Anomalous(p, {"Block"})

(* C4 as stated: in static-file mode the children of a top-level key of
   the per-file ignore set are not modified, the top-level key's own
   table match is applied, and every other top-level Expression comes out
   as the normal rules (process_expression) leave it. *)
C4_Original ==
    (pc \in {"done", "failed"} /\ ~Generic) =>
        \A i \in 1..Len(src_tree) :
            IF src_tree[i].lhs.value \in ignore_static
            THEN IF src_tree[i].rhs.kind = "Block"
                 THEN tree[i] = src_tree[i]
                 ELSE tree[i] = process_expression(src_tree[i], modifiers).exp
            ELSE tree[i] = process_expression(src_tree[i], modifiers).exp

(* C4 amended: in static-file mode a file is transformed only if every
   top-level rhs is a Block (otherwise the transform fails on an
   assertion); then nothing below a top-level key of the per-file ignore
   set is modified, and below every other top-level key, whatever that
   key is, a Number is multiplied exactly when its key is in the table and
   neither it nor an ancestor below the top level has an ignore-block key;
   the top-level key itself is matched against neither the table nor the
   ignore-block set. *)
C4_StaticMode ==
    ~Generic =>
        /\ pc = "failed" =>
              \E i \in 1..Len(src_tree) : src_tree[i].rhs.kind # "Block"
        /\ pc = "done" =>
              /\ \A i \in 1..Len(src_tree) : src_tree[i].rhs.kind = "Block"
              /\ \A p \in PathsOf(src_tree) :
                    /\ UnderStaticIgnore(src_tree, p) => Untouched(p)
                    /\ ExprAt(src_tree, p).rhs.kind # "Block" =>
                          IF IsTarget(src_tree, p) /\ Visited(p)
                          THEN Multiplied(p)
                          ELSE Untouched(p)

\* a static file went through with a top-level key of the per-file ignore
\* set holding a table-keyed Number, next to a top-level key outside it
C4_Witness ==
    /\ pc = "done" /\ ~Generic
    /\ \E p, q \in PathsOf(src_tree) :
          /\ Len(p) = 2 /\ UnderStaticIgnore(src_tree, p)
          /\ IsTarget(src_tree, p) /\ Untouched(p)
          /\ Len(q) = 1 /\ q[1] # p[1]
          /\ ~UnderStaticIgnore(src_tree, q)

(* C10: the transform makes no structural edit: the positions of the
   Expressions, every lhs and every rhs other than a Number under a table
   key are after the transform what they were before it. *)
C10_NoStructuralEdit ==
    pc \in {"done", "failed"} =>
        /\ PathsOf(tree) = PathsOf(src_tree)
        /\ \A p \in PathsOf(src_tree) :
              /\ ExprAt(tree, p).lhs = ExprAt(src_tree, p).lhs
              /\ ExprAt(tree, p).rhs.kind = ExprAt(src_tree, p).rhs.kind
              /\ ~IsTarget(src_tree, p) /\ ExprAt(src_tree, p).rhs.kind # "Block"
                    => ExprAt(tree, p).rhs = ExprAt(src_tree, p).rhs

\* a file with a multiplied Number next to a Number under a key that is
\* not in the table
C10_Witness ==
    /\ pc = "done"
    /\ changed
    /\ \E p \in PathsOf(src_tree) :
          /\ ExprAt(src_tree, p).rhs.kind = "Number"
          /\ ~IsTarget(src_tree, p)
          /\ Visited(p)
          /\ Untouched(p)

----------------------------------------------------------------------------
(* The walk *)

\* how many Numbers of the parsed forest src the transform changed
NumMultiplied(src, aft) ==
    Cardinality({p \in PathsOf(src) :
                   /\ ExprAt(src, p).rhs.kind = "Number"
                   /\ ExprAt(aft, p) # ExprAt(src, p)})

\* process_file returned for the i-th parsed file
Returned(i) == ~(pc = "failed" /\ i = Len(parsed))

(* C5: during a walk a destination file exists only for a source file of
   which the transform multiplied at least one Expression, every file
   whose transform returned with at least one multiplied Expression has
   its destination file, and the destination directories created are
   exactly the ancestors of the files written. *)
C5_WrittenIffMultiplied ==
    /\ \A j \in 1..Len(dest_files) :
          \E i \in 1..Len(parsed) :
              /\ parsed[i] = dest_files[j].path
              /\ NumMultiplied(EntryAt(fs, parsed[i]).content, after[i]) > 0
    /\ \A i \in 1..Len(parsed) :
          ( /\ Returned(i)
            /\ NumMultiplied(EntryAt(fs, parsed[i]).content, after[i]) > 0 )
          => \E j \in 1..Len(dest_files) : dest_files[j].path = parsed[i]
    /\ dest_dirs =
          UNION {MkdirParents(ParentOf(dest_files[j].path)) :
                   j \in 1..Len(dest_files)}

\* a finished walk that wrote one file and skipped the write of another,
\* non-empty, file
C5_Witness ==
    /\ pc = "walk" /\ stack = <<>>
    /\ Len(dest_files) > 0
    /\ \E i \in 1..Len(parsed) :
          /\ after[i] # <<>>
          /\ \A j \in 1..Len(dest_files) : dest_files[j].path # parsed[i]

----------------------------------------------------------------------------
(* The table *)

\* the identifier of the i-th line read
IdentOf(i) == rstrip(lines[i])

\* the last line read that stored key k
LastEmitter(k) ==
    CHOOSE i \in 1..Len(emitted) :
        /\ k \in emitted[i]
        /\ \A j \in (i + 1)..Len(emitted) : k \notin emitted[j]

\* the overrides the claim allows for key k: under k itself and under the
\* identifier of a line that stored k
OverridesFor(k) ==
    {alternatives[a] :
        a \in ({k} \cup {IdentOf(i) : i \in {j \in 1..Len(emitted) :
                                                k \in emitted[j]}})
              \cap DOMAIN alternatives}

(* C6 as stated: the multiplier of a table entry is an override found
   under the entry's template identifier or under its expanded key, when
   there is one, and the global default otherwise. *)
C6_Original ==
    \A k \in DOMAIN res :
        IF OverridesFor(k) # {}
        THEN res[k] \in OverridesFor(k)
        ELSE res[k] = multiplier

(* C6 amended: the multiplier of a table entry is the override found under
   the identifier, as written in the input, of the last line that stored
   the entry, when there is one, and the global default otherwise; the
   expanded key is not looked up. *)
C6_OverrideByIdent ==
    /\ DOMAIN res = UNION {emitted[i] : i \in 1..Len(emitted)}
    /\ \A k \in DOMAIN res :
          res[k] = IF IdentOf(LastEmitter(k)) \in DOMAIN alternatives
                   THEN alternatives[IdentOf(LastEmitter(k))]
                   ELSE multiplier

\* the table is complete and holds, for a key that has an override of its
\* own, the default a template stored
C6_Witness ==
    /\ pc = "load" /\ idx > Len(lines)
    /\ \E k \in DOMAIN res :
          /\ k \in DOMAIN alternatives
          /\ IdentOf(LastEmitter(k)) # k
          /\ res[k] = multiplier

Placeholders == <<REGEX_ESTATE, REGEX_FACTION, REGEX_POWER, REGEX_TECH>>

HasPlaceholder(ident) ==
    \E i \in 1..Len(ident) : \E j \in 1..4 : ident[i] = Placeholders[j]

\* the discovered set of a placeholder
NamesFor(placeholder) ==
    IF placeholder = REGEX_ESTATE THEN estates
    ELSE IF placeholder = REGEX_FACTION THEN factions
    ELSE IF placeholder = REGEX_POWER THEN government_powers
    ELSE tech_types

\* the placeholder of ident that is expanded: the first kind present
PlaceholderOf(ident) ==
    Placeholders[CHOOSE j \in 1..4 :
                    /\ \E i \in 1..Len(ident) : ident[i] = Placeholders[j]
                    /\ \A h \in 1..(j - 1) :
                          \A i \in 1..Len(ident) : ident[i] # Placeholders[h]]

\* k is ident with one placeholder replaced by name n
Replaced(ident, placeholder, n, k) ==
    \E i \in 1..Len(ident) :
        ident[i] = placeholder /\ k = [ident EXCEPT ![i] = n]

(* C7: a line whose identifier holds a placeholder stores exactly one key
   per name of the placeholder's discovered set (none when the set is
   empty), each the identifier with the placeholder replaced by the name,
   and not the template itself; a line whose identifier holds no
   placeholder stores exactly its identifier. *)
C7_Expansion ==
    \A i \in 1..Len(emitted) :
        IdentOf(i) \notin ignores =>
            IF HasPlaceholder(IdentOf(i))
            THEN LET ph == PlaceholderOf(IdentOf(i))
                 IN  /\ Cardinality(emitted[i]) = Cardinality(NamesFor(ph))
                     /\ \A k \in emitted[i] :
                           \E n \in NamesFor(ph) :
                               Replaced(IdentOf(i), ph, n, k)
                     /\ \A n \in NamesFor(ph) :
                           \E k \in emitted[i] :
                               Replaced(IdentOf(i), ph, n, k)
                     /\ IdentOf(i) \notin emitted[i]
            ELSE emitted[i] = {IdentOf(i)}

\* a template was expanded into two keys and a plain identifier stored
C7_Witness ==
    /\ pc = "load" /\ idx > Len(lines)
    /\ \E i, j \in 1..Len(emitted) :
          /\ HasPlaceholder(IdentOf(i))
          /\ Cardinality(emitted[i]) = 2
          /\ ~HasPlaceholder(IdentOf(j))
          /\ emitted[j] = {IdentOf(j)}

----------------------------------------------------------------------------
(* The grammar and the serializer *)

(* C8: the text print_pdx_script produces for a comment-free tree parses
   to a tree equal to the printed one, node kind by node kind (Number
   values are compared as values, not as literals). *)
C8_RoundTrip ==
    pc = "reparsed" => (reparsed.ok /\ reparsed.tree = ptree)

\* where the rhs of the first Expression of text starts
RhsLoc == SkipWs(text, _IDENTIFIER(text, 1).loc) + 1

\* the Value productions in priority order, tried at the rhs
Productions ==
    <<_NUMBER(text, RhsLoc), _COLOR(text, RhsLoc), _LISTING(text, RhsLoc),
      _BLOCK(text, RhsLoc), _IDENTIFIER(text, RhsLoc), _STRING(text, RhsLoc)>>

ProductionKinds ==
    <<"Number", "Color", "Listing", "Block", "Identifier", "String">>

Matching == {i \in 1..6 : Productions[i].ok}

\* the production that consumes most, the first in priority among equals
Longest ==
    CHOOSE i \in Matching :
        \A j \in Matching :
            \/ Productions[j].loc < Productions[i].loc
            \/ Productions[j].loc = Productions[i].loc /\ i <= j

(* C9: the rhs of an Expression is parsed by the Value production that
   consumes the most characters among those that match, the first in the
   order Number, Color, Listing, Block, Identifier, String among equals,
   and the file parses whenever that production consumes the rest of the
   text; rhs 10 is a Number and rhs 1.5.2 an Identifier. *)
C9_LongestMatch ==
    (pc \in {"tree", "error"} /\ text # <<>>) =>
        /\ pc = "tree" =>
              /\ Matching # {}
              /\ ptree[1].rhs.kind = ProductionKinds[Longest]
              /\ ptree[1].rhs = Productions[Longest].val
        /\ (Matching # {} /\ SkipWs(text, Productions[Longest].loc) > Len(text))
              => pc = "tree"
        /\ text = <<"k", " ", "=", " ", "1", "0">> =>
              pc = "tree" /\ ptree[1].rhs = Number(IntVal(10))
        /\ text = <<"k", " ", "=", " ", "1", ".", "5", ".", "2">> =>
              /\ pc = "tree"
              /\ ptree[1].rhs = Identifier(<<"1", ".", "5", ".", "2">>)

\* a rhs that two productions match to the same length was parsed as the
\* first of them in priority
C9_Witness ==
    /\ pc = "tree" /\ text # <<>>
    /\ \E i, j \in Matching :
          /\ i < j
          /\ Productions[i].loc = Productions[j].loc
          /\ ptree[1].rhs.kind = ProductionKinds[i]

----------------------------------------------------------------------------
(* The walk of process_target *)

RECURSIVE FilePathsOf(_)
\* the paths, below directory d, of the files of its tree
FilePathsOf(d) ==
    UNION {IF d.entries[i].is_dir
           THEN {<<d.entries[i].name>> \o q : q \in FilePathsOf(d.entries[i])}
           ELSE {<<d.entries[i].name>>} :
           i \in 1..Len(d.entries)}

\* the file at path p lies beneath a directory (below the source directory)
\* whose name is in the ignored-directory set
BeneathIgnoredDir(p) == \E i \in 1..(Len(p) - 1) : p[i] \in IGNORE_DIRS

\* the file at path p lies directly inside the top-level common directory:
\* the source directory when it is named common, or its entry common
LooseInCommon(p) ==
    \/ Len(p) = 1 /\ fs.name = "common"
    \/ Len(p) = 2 /\ p[1] = "common"

Eligible(p) == ~BeneathIgnoredDir(p) /\ ~LooseInCommon(p)

WalkFinished == pc = "walk" /\ stack = <<>>

\* C11: no file that is beneath an ignored directory or loose in the
\* top-level common directory is ever parsed or written, no file is parsed
\* twice, and when the walk has emptied its stack every other file of the
\* source tree has been parsed.
C11_EligibleParsedOnce ==
    /\ \A i \in 1..Len(parsed) : Eligible(parsed[i])
    /\ \A i \in 1..Len(dest_files) : Eligible(dest_files[i].path)
    /\ \A i, j \in 1..Len(parsed) : parsed[i] = parsed[j] => i = j
    /\ WalkFinished =>
           \A p \in FilePathsOf(fs) : Eligible(p) => p \in Range(parsed)

----------------------------------------------------------------------------
(* The lines of load_modifiers *)

\* the stripped text of line i
StrippedLine(i) == rstrip(lines[i])

\* C12: a blank line and a line whose identifier is in the ignore list
\* emit no table entry, and every other line emits at least one.
C12_BlankAndIgnoredSkipped ==
    \A i \in 1..Len(emitted) :
        IF StrippedLine(i) = <<>> \/ StrippedLine(i) \in ignores
        THEN emitted[i] = {}
        ELSE emitted[i] # {}

----------------------------------------------------------------------------
(* The block stack of the line-oriented processor *)

\* a line without its line end
StripEnd(l) ==
    IF l # <<>> /\ l[Len(l)] = "\n" THEN SubSeq(l, 1, Len(l) - 1) ELSE l

\* the line is a block opening "key = {", respectively a closing "}", on
\* its own, optionally followed by a # comment
IsOpening(l) == OpenMatch(StripEnd(l))

IsClosing(l) == CloseMatch(StripEnd(l))

RECURSIVE OpenBlocks(_, _)
\* the names of the blocks of file f that are open after its first n lines
OpenBlocks(f, n) ==
    IF n = 0
    THEN <<>>
    ELSE IF IsOpening(f[n])
    THEN Append(OpenBlocks(f, n - 1), OpenName(StripEnd(f[n])))
    ELSE IF IsClosing(f[n]) /\ OpenBlocks(f, n - 1) # <<>>
    THEN SubSeq(OpenBlocks(f, n - 1), 1, Len(OpenBlocks(f, n - 1)) - 1)
    ELSE OpenBlocks(f, n - 1)

\* every opening and every closing brace of f is on a line of its own
BracesOnOwnLines(f) ==
    \A n \in 1..Len(f) :
        ("{" \in Range(f[n]) \/ "}" \in Range(f[n]))
            => (IsOpening(f[n]) \/ IsClosing(f[n]))

Balanced(f) ==
    /\ \A n \in 1..Len(f) :
           (IsClosing(f[n]) /\ ~IsOpening(f[n])) => OpenBlocks(f, n - 1) # <<>>
    /\ OpenBlocks(f, Len(f)) = <<>>

\* the line holds a "key = number"
IsAssign(l) == ~IsOpening(l) /\ ~IsClosing(l) /\ MatchStarts(l, 1) # {}

\* C13: on a file whose block openings and closings are on lines of their
\* own (optionally followed by a comment) and balanced, the block stack
\* equals the names of the open enclosing blocks at every line, no pop hits
\* the empty stack, every line read has been written in order, and a line
\* is written changed only if it is a "key = number" line none of whose
\* enclosing blocks the predicate of the source type excludes.
C13_BlockStack ==
    (pc \in {"legacy", "failed"}
       /\ BracesOnOwnLines(in_file) /\ Balanced(in_file)) =>
        /\ pc # "failed"
        /\ blocks = OpenBlocks(in_file, lineno - 1)
        /\ Len(out_file) = lineno - 1
        /\ \A i \in 1..Len(out_file) :
               out_file[i] # in_file[i] =>
                   /\ IsAssign(in_file[i])
                   /\ block_predicate(source_type,
                                      OpenBlocks(in_file, i - 1))

====
